---------------------------- MODULE Spec2Model ----------------------------
(***************************************************************************)
(* The retry/backoff engine of the Citrea bot (src/index.js): the error    *)
(* classifier isRetryableError, the retry loop withRetry, and the nested   *)
(* use of withRetry by CitreaBot.selfTransfer.                             *)
(*                                                                         *)
(* A JavaScript string is modelled as a sequence of one-character strings, *)
(* so that lower-casing and substring search are computed, not assumed.    *)
(***************************************************************************)
EXTENDS Integers, Sequences, FiniteSets, TLC

VARIABLES
    cError,     \* isRetryableError: the argument `error`
    cResult,    \* isRetryableError: how the call ended
    cPc,        \* isRetryableError: "call" before the call, "done" after it
    call,       \* one withRetry call: its local variables and its history
    outer,      \* selfTransfer: the withRetry call of line 228
    inner,      \* selfTransfer: the withRetry call of line 240
    submitted,  \* selfTransfer: number of sendTransaction calls that returned a tx
    calls,      \* withRetry calls in flight together on the event loop
    partial,    \* a withRetry call whose policy argument may lack fields
    main,       \* startBot/main: the wallet loop and the countdown
    bot,         \* one CitreaBot task method: its two levels of withRetry
    wallet      \* processWallet: one call, its position in the task list and its history

vars == <<cError, cResult, cPc, call, outer, inner, submitted, calls, partial, main, bot, wallet>>

\* the state of the parts added to the first three
rest == <<calls, partial, main, bot, wallet>>

(***************************************************************************)
(* Bounds of the model.                                                    *)
(***************************************************************************)
\* policies tried have maxAttempts in 0..MaxAttemptsBound
MaxAttemptsBound == 3
\* policies tried have backoffFactor in 1..MaxBackoffFactor
MaxBackoffFactor == 3
\* classified messages carry at most MaxPad characters before and after their body
MaxPad == 1

Min(a, b) == IF a <= b THEN a ELSE b

(***************************************************************************)
(* Strings.                                                                *)
(***************************************************************************)

UpperCaseLetters == <<"A", "B", "C", "D", "E", "F", "G", "H", "I", "J", "K", "L", "M", "N", "O", "P", "Q", "R", "S", "T", "U", "V", "W", "X", "Y", "Z">>
LowerCaseLetters == <<"a", "b", "c", "d", "e", "f", "g", "h", "i", "j", "k", "l", "m", "n", "o", "p", "q", "r", "s", "t", "u", "v", "w", "x", "y", "z">>

\* String.prototype.toLowerCase on one ASCII character
toLowerCaseChar(c) ==
    IF \E i \in 1..26 : UpperCaseLetters[i] = c
    THEN LowerCaseLetters[CHOOSE i \in 1..26 : UpperCaseLetters[i] = c]
    ELSE c

\* String.prototype.toLowerCase
toLowerCase(s) == [i \in 1..Len(s) |-> toLowerCaseChar(s[i])]

\* the upper-case form of a string (used to build inputs only)
toUpperCaseChar(c) ==
    IF \E i \in 1..26 : LowerCaseLetters[i] = c
    THEN UpperCaseLetters[CHOOSE i \in 1..26 : LowerCaseLetters[i] = c]
    ELSE c

toUpperCase(s) == [i \in 1..Len(s) |-> toUpperCaseChar(s[i])]

\* whether p occurs in s at position i (1-based), compared character by character
RECURSIVE matchesAt(_, _, _, _)
matchesAt(s, p, i, k) ==
    IF k > Len(p) THEN TRUE
    ELSE IF i + k - 1 > Len(s) THEN FALSE
    ELSE IF s[i + k - 1] # p[k] THEN FALSE
    ELSE matchesAt(s, p, i, k + 1)

\* String.prototype.includes: scan the start positions from the left
RECURSIVE includesFrom(_, _, _)
includesFrom(s, p, i) ==
    IF i + Len(p) - 1 > Len(s) THEN FALSE
    ELSE IF matchesAt(s, p, i, 1) THEN TRUE
    ELSE includesFrom(s, p, i + 1)

includes(s, p) == includesFrom(s, p, 1)

(***************************************************************************)
(* Error values.  origin is the number of the operation invocation that    *)
(* threw the value (0: the operation did not throw it), so the errors of   *)
(* two attempts are two objects even when their messages are equal.        *)
(* hasMessage is FALSE for a thrown value whose .message is undefined.     *)
(***************************************************************************)

\* the message of the TypeError raised by undefined.toLowerCase()
TypeErrorMessage ==
    <<"C", "a", "n", "n", "o", "t", " ", "r", "e", "a", "d", " ", "p", "r", "o", "p", "e", "r", "t", "i", "e", "s", " ", "o", "f", " ", "u", "n", "d", "e", "f", "i", "n", "e", "d", " ", "(", "r", "e", "a", "d", "i", "n", "g", " ", "'", "t", "o", "L", "o", "w", "e", "r", "C", "a", "s", "e", "'", ")">>

Undefined == [name |-> "undefined", origin |-> 0, hasMessage |-> FALSE, message |-> <<>>]

TypeErrorValue ==
    [name |-> "TypeError", origin |-> 0, hasMessage |-> TRUE, message |-> TypeErrorMessage]

ErrorWith(msg, n) == [name |-> "Error", origin |-> n, hasMessage |-> TRUE, message |-> msg]

ErrorWithoutMessage(n) ==
    [name |-> "Error", origin |-> n, hasMessage |-> FALSE, message |-> <<>>]

(***************************************************************************)
(* isRetryableError (src/index.js 51-67).                                  *)
(***************************************************************************)

retryableErrors ==
    << <<"t", "i", "m", "e", "o", "u", "t">>,
       <<"n", "e", "t", "w", "o", "r", "k", " ", "e", "r", "r", "o", "r">>,
       <<"n", "o", "n", "c", "e", " ", "t", "o", "o", " ", "l", "o", "w">>,
       <<"t", "r", "a", "n", "s", "a", "c", "t", "i", "o", "n", " ", "u", "n", "d", "e", "r", "p", "r", "i", "c", "e", "d">>,
       <<"i", "n", "s", "u", "f", "f", "i", "c", "i", "e", "n", "t", " ", "f", "u", "n", "d", "s", " ", "f", "o", "r", " ", "g", "a", "s">>,
       <<"r", "e", "p", "l", "a", "c", "e", "m", "e", "n", "t", " ", "f", "e", "e", " ", "t", "o", "o", " ", "l", "o", "w">>,
       <<"r", "a", "t", "e", " ", "l", "i", "m", "i", "t", " ", "e", "x", "c", "e", "e", "d", "e", "d">>,
       <<"I", "n", "t", "e", "r", "n", "a", "l", " ", "J", "S", "O", "N", "-", "R", "P", "C", " ", "e", "r", "r", "o", "r">>,
       <<"c", "o", "n", "n", "e", "c", "t", "i", "o", "n", " ", "r", "e", "s", "e", "t">>,
       <<"t", "o", "o", " ", "m", "a", "n", "y", " ", "r", "e", "q", "u", "e", "s", "t", "s">> >>

\* retryableErrors.some(msg => errorMessage.includes(msg.toLowerCase())), from index i on
RECURSIVE someIncludes(_, _)
\* (faulty variant: the entries are compared as written, not lower-cased)
NoPatternLowerCasing(errorMessage, i) ==
    \E j \in i..Len(retryableErrors) : includes(errorMessage, retryableErrors[j])

someIncludes(errorMessage, i) ==
    IF i > Len(retryableErrors) THEN FALSE
    ELSE IF includes(errorMessage, toLowerCase(retryableErrors[i])) THEN TRUE
    ELSE someIncludes(errorMessage, i + 1)

\* (faulty variant: the message is compared as thrown, not lower-cased)
NoMessageLowerCasing(error) ==
    IF ~error.hasMessage
    THEN [threw |-> TRUE, value |-> FALSE]
    ELSE [threw |-> FALSE, value |-> someIncludes(error.message, 1)]

\* how a call of isRetryableError ends: it returns value, or it throws the
\* TypeError of reading toLowerCase of an undefined message
isRetryableError(error) ==
    IF ~error.hasMessage
    THEN [threw |-> TRUE, value |-> FALSE]
    ELSE [threw |-> FALSE, value |-> someIncludes(toLowerCase(error.message), 1)]

NotCalled == [threw |-> FALSE, value |-> FALSE]

(***************************************************************************)
(* Inputs of isRetryableError: each entry of the list as written, in lower *)
(* case, in upper case and with its last character cut, and some messages  *)
(* that are close to an entry, each with up to MaxPad characters around it.*)
(***************************************************************************)

MsgNetworkErrorMixed == <<"N", "e", "t", "w", "o", "r", "k", " ", "E", "r", "r", "o", "r">>
MsgNetworkErrorUpper == <<"N", "E", "T", "W", "O", "R", "K", " ", "E", "R", "R", "O", "R">>
MsgTimeout == <<"t", "i", "m", "e", "o", "u", "t">>
MsgReverted == <<"e", "x", "e", "c", "u", "t", "i", "o", "n", " ", "r", "e", "v", "e", "r", "t", "e", "d">>

NearMisses ==
    { <<"t", "i", "m", "e", " ", "o", "u", "t">>,
      <<"n", "e", "t", "w", "o", "r", "k", "e", "r", "r", "o", "r">>,
      <<"n", "o", "n", "c", "e", " ", "t", "o", "o", " ", "h", "i", "g", "h">>,
      <<"e", "x", "e", "c", "u", "t", "i", "o", "n", " ", "r", "e", "v", "e", "r", "t", "e", "d">>,
      <<"r", "a", "t", "e", " ", "l", "i", "m", "i", "t">>,
      <<"j", "s", "o", "n", "-", "r", "p", "c", " ", "e", "r", "r", "o", "r">>,
      <<>> }

MessageBodies ==
    {retryableErrors[i] : i \in 1..Len(retryableErrors)}
    \cup {toLowerCase(retryableErrors[i]) : i \in 1..Len(retryableErrors)}
    \cup {toUpperCase(retryableErrors[i]) : i \in 1..Len(retryableErrors)}
    \cup {SubSeq(retryableErrors[i], 1, Len(retryableErrors[i]) - 1) :
              i \in 1..Len(retryableErrors)}
    \cup NearMisses
    \cup {MsgNetworkErrorMixed}

PadChars == {" ", "T"}

Pads == UNION {[1..n -> PadChars] : n \in 0..MaxPad}

TestMessages == {pre \o body \o suf : pre \in Pads, body \in MessageBodies, suf \in Pads}

TestErrors == {ErrorWith(m, 1) : m \in TestMessages} \cup {ErrorWithoutMessage(1)}

(***************************************************************************)
(* The classifier applied to one input.                                    *)
(***************************************************************************)
\* a call isRetryableError(cError) runs to its end
ClassifyCall ==
    /\ cPc = "call"
    /\ cResult' = isRetryableError(cError)
    /\ cPc' = "done"
    /\ UNCHANGED <<cError, call, outer, inner, submitted, rest>>

(***************************************************************************)
(* withRetry (src/index.js 18-48).  A call is a record of its parameters,  *)
(* its local variables (attempt, delay, lastError), its position pc and    *)
(* its outcome (result or thrown), with the history of what it did:        *)
(* invocations of the operation, the errors the operation threw, the       *)
(* delays passed to sleep and the logger.warn events.                      *)
(*   pc: "idle" not called, "ATTEMPTING" at the loop head, "RUNNING"       *)
(*   awaiting operation(), "RETRY_WAIT" awaiting sleep(delay),             *)
(*   "SUCCESS" returned, "FAILED" threw.                                   *)
(* The result of the operation's n-th invocation is the value n.           *)
(***************************************************************************)
RETRY_CONFIG ==
    [maxAttempts |-> 3, initialDelay |-> 1000, maxDelay |-> 10000, backoffFactor |-> 2]

IdleCall ==
    [pc |-> "idle", policy |-> RETRY_CONFIG, attempt |-> 0, delay |-> 0,
     lastError |-> Undefined, result |-> 0, thrown |-> Undefined,
     invocations |-> 0, errors |-> <<>>, slept |-> <<>>, events |-> <<>>]

\* (faulty variant: the loop test is attempt < maxAttempts)
LoopTestExclusive(f) ==
    IF f.attempt < f.policy.maxAttempts
    THEN [f EXCEPT !.pc = "ATTEMPTING"]
    ELSE [f EXCEPT !.pc = "FAILED", !.thrown = f.lastError]

\* the for loop's test, and the throw lastError after the loop
LoopTest(f) ==
    IF f.attempt <= f.policy.maxAttempts
    THEN [f EXCEPT !.pc = "ATTEMPTING"]
    ELSE [f EXCEPT !.pc = "FAILED", !.thrown = f.lastError]

\* (faulty variant: the attempt counter starts at 0)
EnterAtAttemptZero(policy) ==
    LoopTest([IdleCall EXCEPT !.policy = policy, !.attempt = 0,
                              !.delay = policy.initialDelay])

\* the call: let lastError; let delay = initialDelay; attempt = 1; first loop test
withRetryEnter(policy) ==
    LoopTest([IdleCall EXCEPT !.policy = policy, !.attempt = 1,
                              !.delay = policy.initialDelay])

\* operation() is called
Invoke(f) == [f EXCEPT !.pc = "RUNNING", !.invocations = @ + 1]

\* (faulty variant: the sleep sits in a finally block and also follows a success)
SleepInFinally(f, value) ==
    [f EXCEPT !.pc = "SUCCESS", !.result = value, !.slept = Append(@, f.delay)]

\* return await operation(): the operation resolved with value
OnResolve(f, value) == [f EXCEPT !.pc = "SUCCESS", !.result = value]

\* (faulty variant: the budget test is off by one)
RethrowOneAttemptEarly(error, attempt, maxAttempts) ==
    ~isRetryableError(error).value \/ attempt >= maxAttempts - 1

\* (faulty variant: the budget is never tested)
RethrowOnlyNonRetryable(error, attempt, maxAttempts) == ~isRetryableError(error).value

\* (faulty variant: the classification is ignored)
RethrowOnlyWhenExhausted(error, attempt, maxAttempts) == attempt = maxAttempts

\* the condition of line 29, for an error isRetryableError classifies
shouldRethrow(error, attempt, maxAttempts) ==
    ~isRetryableError(error).value \/ attempt = maxAttempts

\* (faulty variant: no cap)
NextDelayUncapped(delay, policy) == delay * policy.backoffFactor

\* (faulty variant: linear instead of exponential growth)
NextDelayLinear(delay, policy) == Min(delay + policy.initialDelay, policy.maxDelay)

\* line 44: delay = Math.min(delay * backoffFactor, maxDelay)
nextDelay(delay, policy) == Min(delay * policy.backoffFactor, policy.maxDelay)

\* (faulty variant: the event carries the delay of the following retry)
RetryEventAfterBackoff(f, error) ==
    [attempt |-> f.attempt, maxAttempts |-> f.policy.maxAttempts,
     nextRetryDelay |-> <<nextDelay(f.delay, f.policy) \div 1000,
                          nextDelay(f.delay, f.policy) % 1000>>,
     error |-> error]

\* the logger.warn call of lines 34-38; nextRetryDelay is delay/1000, kept
\* exactly as whole seconds and the remaining milliseconds
RetryEvent(f, error) ==
    [attempt |-> f.attempt, maxAttempts |-> f.policy.maxAttempts,
     nextRetryDelay |-> <<f.delay \div 1000, f.delay % 1000>>, error |-> error]

\* (faulty variant: the backoff computation precedes the rethrow)
UpdateDelayBeforeRethrow(f, error) ==
    LET g == [f EXCEPT !.lastError = error, !.errors = Append(@, error),
                       !.delay = nextDelay(f.delay, f.policy)]
    IN  IF isRetryableError(error).threw
        THEN [g EXCEPT !.pc = "FAILED", !.thrown = TypeErrorValue]
        ELSE IF shouldRethrow(error, g.attempt, g.policy.maxAttempts)
        THEN [g EXCEPT !.pc = "FAILED", !.thrown = error]
        ELSE [g EXCEPT !.pc = "RETRY_WAIT",
                       !.events = Append(@, RetryEvent(f, error)),
                       !.slept = Append(@, f.delay),
                       !.delay = f.delay]

\* the catch block for the error thrown by operation(), up to await sleep(delay)
OnReject(f, error) ==
    LET g == [f EXCEPT !.lastError = error, !.errors = Append(@, error)]
    IN  IF isRetryableError(error).threw
        THEN [g EXCEPT !.pc = "FAILED", !.thrown = TypeErrorValue]
        ELSE IF shouldRethrow(error, g.attempt, g.policy.maxAttempts)
        THEN [g EXCEPT !.pc = "FAILED", !.thrown = error]
        ELSE [g EXCEPT !.pc = "RETRY_WAIT",
                       !.events = Append(@, RetryEvent(g, error)),
                       !.slept = Append(@, g.delay)]

\* sleep(delay) is over: line 44, attempt++, the loop test
OnWake(f) ==
    LoopTest([f EXCEPT !.delay = nextDelay(f.delay, f.policy), !.attempt = @ + 1])

(***************************************************************************)
(* Inputs of withRetry: the policies and what the operation may throw.     *)
(***************************************************************************)
Policies ==
    [maxAttempts : 0..MaxAttemptsBound, initialDelay : {1000, 2000},
     maxDelay : {1000, 1500, 10000}, backoffFactor : 1..MaxBackoffFactor]

OperationMessages == {MsgTimeout, MsgNetworkErrorMixed, MsgReverted, <<>>}

\* the values invocation n of the operation may throw
OperationErrors(n) == {ErrorWith(m, n) : m \in OperationMessages} \cup {ErrorWithoutMessage(n)}

(***************************************************************************)
(* One call of withRetry.                                                  *)
(***************************************************************************)
others == <<cError, cResult, cPc, outer, inner, submitted, rest>>

RetryCall ==
    /\ call.pc = "idle"
    /\ \E policy \in Policies : call' = withRetryEnter(policy)
    /\ UNCHANGED others

RetryInvoke ==
    /\ call.pc = "ATTEMPTING"
    /\ call' = Invoke(call)
    /\ UNCHANGED others

RetryResolve ==
    /\ call.pc = "RUNNING"
    /\ call' = OnResolve(call, call.invocations)
    /\ UNCHANGED others

RetryReject ==
    /\ call.pc = "RUNNING"
    /\ \E error \in OperationErrors(call.invocations) : call' = OnReject(call, error)
    /\ UNCHANGED others

RetryWake ==
    /\ call.pc = "RETRY_WAIT"
    /\ call' = OnWake(call)
    /\ UNCHANGED others

(***************************************************************************)
(* CitreaBot.selfTransfer (src/index.js 227-249): the outer withRetry runs *)
(* sendTransaction and then an inner withRetry around tx.wait(); the catch *)
(* block logs and rethrows.  Both calls take the default policy.           *)
(* inner.pc = "idle" while outer is RUNNING: sendTransaction is pending.   *)
(***************************************************************************)
\* the identity of an error of the transfer: outer invocation, inner invocation
OriginOf(o, i) == o * 10 + i

\* (faulty variant: attempt and delay are shared by the two calls)
SharedAttemptState(outerCall, innerCall) ==
    [outerCall EXCEPT !.attempt = innerCall.attempt, !.delay = innerCall.delay]

\* what an inner call's step means to the outer call that awaits it
awaitInner(outerCall, innerCall) ==
    IF innerCall.pc = "SUCCESS" THEN OnResolve(outerCall, innerCall.result)
    ELSE IF innerCall.pc = "FAILED" THEN OnReject(outerCall, innerCall.thrown)
    ELSE outerCall

classifierIdle == <<cError, cResult, cPc>>

TransferCall ==
    /\ outer.pc = "idle"
    /\ outer' = withRetryEnter(RETRY_CONFIG)
    /\ UNCHANGED <<classifierIdle, rest, call, inner, submitted>>

OuterInvoke ==
    /\ outer.pc = "ATTEMPTING"
    /\ outer' = Invoke(outer)
    /\ inner' = IdleCall
    /\ UNCHANGED <<classifierIdle, rest, call, submitted>>

SendReject ==
    /\ outer.pc = "RUNNING" /\ inner.pc = "idle"
    /\ \E error \in OperationErrors(OriginOf(outer.invocations, 0)) :
           outer' = OnReject(outer, error)
    /\ UNCHANGED <<classifierIdle, rest, call, inner, submitted>>

SendResolve ==
    /\ outer.pc = "RUNNING" /\ inner.pc = "idle"
    /\ submitted' = submitted + 1
    /\ inner' = withRetryEnter(RETRY_CONFIG)
    /\ outer' = awaitInner(outer, inner')
    /\ UNCHANGED <<classifierIdle, rest, call>>

InnerInvoke ==
    /\ outer.pc = "RUNNING" /\ inner.pc = "ATTEMPTING"
    /\ inner' = Invoke(inner)
    /\ UNCHANGED <<classifierIdle, rest, call, outer, submitted>>

InnerResolve ==
    /\ outer.pc = "RUNNING" /\ inner.pc = "RUNNING"
    /\ inner' = OnResolve(inner, OriginOf(outer.invocations, inner.invocations))
    /\ outer' = awaitInner(outer, inner')
    /\ UNCHANGED <<classifierIdle, rest, call, submitted>>

InnerReject ==
    /\ outer.pc = "RUNNING" /\ inner.pc = "RUNNING"
    /\ \E error \in OperationErrors(OriginOf(outer.invocations, inner.invocations)) :
           inner' = OnReject(inner, error)
    /\ outer' = awaitInner(outer, inner')
    /\ UNCHANGED <<classifierIdle, rest, call, submitted>>

InnerWake ==
    /\ outer.pc = "RUNNING" /\ inner.pc = "RETRY_WAIT"
    /\ inner' = OnWake(inner)
    /\ outer' = awaitInner(outer, inner')
    /\ UNCHANGED <<classifierIdle, rest, call, submitted>>

OuterWake ==
    /\ outer.pc = "RETRY_WAIT"
    /\ outer' = OnWake(outer)
    /\ UNCHANGED <<classifierIdle, rest, call, inner, submitted>>

(***************************************************************************)
(* Several withRetry calls in flight on the one event loop.  A call        *)
(* suspends at await operation() and at await sleep(delay); between two    *)
(* suspensions it runs alone, so a step of the model is one call running   *)
(* from one suspension to the next.  attempt, delay and lastError are      *)
(* declared with let inside the function (lines 19-22).                    *)
(***************************************************************************)
\* number of calls in flight together
MaxCalls == 2

CallIds == 1..MaxCalls

IdleCalls == [i \in CallIds |-> IdleCall]

\* the policies of the calls in flight: the default and one that reaches its cap
ConcurrentPolicies ==
    {RETRY_CONFIG,
     [maxAttempts |-> 2, initialDelay |-> 2000, maxDelay |-> 3000, backoffFactor |-> 3]}

\* what invocation n of the operation of call i may throw
ConcurrentErrors(i, n) ==
    {ErrorWith(MsgTimeout, OriginOf(i, n)), ErrorWith(MsgReverted, OriginOf(i, n))}

\* (faulty variant: attempt, delay and lastError are module-level variables,
\* so the running calls all see the values the last step wrote)
SharedLocals(cs, i, f) ==
    [j \in DOMAIN cs |->
        IF j = i THEN f
        ELSE IF cs[j].pc \in {"ATTEMPTING", "RUNNING", "RETRY_WAIT"}
        THEN [cs[j] EXCEPT !.attempt = f.attempt, !.delay = f.delay,
                           !.lastError = f.lastError]
        ELSE cs[j]]

\* call i running up to its next suspension writes its own locals only
writeLocals(cs, i, f) == [cs EXCEPT ![i] = f]

allButCalls == <<cError, cResult, cPc, call, outer, inner, submitted, partial, main, bot, wallet>>

ConcCall(i) ==
    /\ calls[i].pc = "idle"
    /\ \E policy \in ConcurrentPolicies :
           calls' = writeLocals(calls, i, withRetryEnter(policy))
    /\ UNCHANGED allButCalls

ConcInvoke(i) ==
    /\ calls[i].pc = "ATTEMPTING"
    /\ calls' = writeLocals(calls, i, Invoke(calls[i]))
    /\ UNCHANGED allButCalls

ConcResolve(i) ==
    /\ calls[i].pc = "RUNNING"
    /\ calls' = writeLocals(calls, i,
                            OnResolve(calls[i], OriginOf(i, calls[i].invocations)))
    /\ UNCHANGED allButCalls

ConcReject(i) ==
    /\ calls[i].pc = "RUNNING"
    /\ \E error \in ConcurrentErrors(i, calls[i].invocations) :
           calls' = writeLocals(calls, i, OnReject(calls[i], error))
    /\ UNCHANGED allButCalls

ConcWake(i) ==
    /\ calls[i].pc = "RETRY_WAIT"
    /\ calls' = writeLocals(calls, i, OnWake(calls[i]))
    /\ UNCHANGED allButCalls

(***************************************************************************)
(* withRetry called with a policy argument that may lack fields            *)
(* (src/index.js 18).  The parameter                                       *)
(*   { maxAttempts, initialDelay, maxDelay, backoffFactor } = RETRY_CONFIG *)
(* takes RETRY_CONFIG when the argument is undefined; otherwise the four   *)
(* names are read from the argument, and a property it lacks reads as      *)
(* undefined.  A JavaScript value here is a number, undefined or NaN.      *)
(***************************************************************************)
jsNumber(n) == [t |-> "number", n |-> n]

jsUndefined == [t |-> "undefined", n |-> 0]

jsNaN == [t |-> "NaN", n |-> 0]

\* a <= b for a number a: false when b is undefined (it converts to NaN) or NaN
jsLessOrEqual(a, b) == b.t = "number" /\ a <= b.n

\* a === b for a number a
jsStrictEquals(a, b) == b.t = "number" /\ a = b.n

\* a * b
jsTimes(a, b) == IF a.t = "number" /\ b.t = "number" THEN jsNumber(a.n * b.n) ELSE jsNaN

\* Math.min(a, b)
MathMin(a, b) ==
    IF a.t = "number" /\ b.t = "number" THEN jsNumber(Min(a.n, b.n)) ELSE jsNaN

\* the milliseconds setTimeout waits for a delay: undefined and NaN count as 0
timeoutOf(delay) == IF delay.t = "number" THEN delay.n ELSE 0

PolicyFields == {"maxAttempts", "initialDelay", "maxDelay", "backoffFactor"}

\* RETRY_CONFIG as JavaScript values
defaultPolicy == [k \in PolicyFields |-> jsNumber(RETRY_CONFIG[k])]

\* the second argument of a call: absent, or an object with some of the fields
PolicyArguments ==
    {[given |-> FALSE, fields |-> [k \in PolicyFields |-> jsUndefined]]}
    \cup {[given |-> TRUE, fields |-> o] :
            o \in [maxAttempts : {jsUndefined, jsNumber(1), jsNumber(2)},
                   initialDelay : {jsUndefined, jsNumber(500)},
                   maxDelay : {jsUndefined, jsNumber(800)},
                   backoffFactor : {jsUndefined, jsNumber(2)}]}

\* (faulty variant: every field the argument lacks takes its default)
PerFieldDefaults(arg) ==
    [k \in PolicyFields |->
        IF arg.given /\ arg.fields[k].t # "undefined" THEN arg.fields[k]
        ELSE defaultPolicy[k]]

\* the values bound to the four parameter names
bindPolicy(arg) == IF arg.given THEN arg.fields ELSE defaultPolicy

IdlePartial ==
    [pc |-> "idle", arg |-> [given |-> FALSE, fields |-> [k \in PolicyFields |-> jsUndefined]],
     params |-> defaultPolicy, attempt |-> 0, delay |-> jsUndefined,
     lastError |-> Undefined, thrown |-> Undefined, result |-> 0,
     invocations |-> 0, slept |-> <<>>]

\* the for loop's test, and the throw lastError after the loop
partialLoopTest(f) ==
    IF jsLessOrEqual(f.attempt, f.params.maxAttempts)
    THEN [f EXCEPT !.pc = "ATTEMPTING"]
    ELSE [f EXCEPT !.pc = "FAILED", !.thrown = f.lastError]

partialEnter(arg) ==
    LET params == bindPolicy(arg)
    IN  partialLoopTest([IdlePartial EXCEPT !.arg = arg, !.params = params,
                                            !.attempt = 1, !.delay = params.initialDelay])

\* the catch block up to await sleep(delay)
partialOnReject(f, error) ==
    LET g == [f EXCEPT !.lastError = error]
    IN  IF isRetryableError(error).threw
        THEN [g EXCEPT !.pc = "FAILED", !.thrown = TypeErrorValue]
        ELSE IF ~isRetryableError(error).value
                \/ jsStrictEquals(g.attempt, g.params.maxAttempts)
        THEN [g EXCEPT !.pc = "FAILED", !.thrown = error]
        ELSE [g EXCEPT !.pc = "RETRY_WAIT", !.slept = Append(@, timeoutOf(g.delay))]

\* after the sleep: line 44, attempt++, the loop test
partialOnWake(f) ==
    partialLoopTest([f EXCEPT !.delay = MathMin(jsTimes(f.delay, f.params.backoffFactor),
                                                f.params.maxDelay),
                              !.attempt = @ + 1])

allButPartial == <<cError, cResult, cPc, call, outer, inner, submitted, calls, main, bot, wallet>>

PartialCall ==
    /\ partial.pc = "idle"
    /\ \E arg \in PolicyArguments : partial' = partialEnter(arg)
    /\ UNCHANGED allButPartial

PartialInvoke ==
    /\ partial.pc = "ATTEMPTING"
    /\ partial' = [partial EXCEPT !.pc = "RUNNING", !.invocations = @ + 1]
    /\ UNCHANGED allButPartial

PartialResolve ==
    /\ partial.pc = "RUNNING"
    /\ partial' = [partial EXCEPT !.pc = "SUCCESS", !.result = partial.invocations]
    /\ UNCHANGED allButPartial

PartialReject ==
    /\ partial.pc = "RUNNING"
    /\ \E error \in {ErrorWith(MsgTimeout, partial.invocations),
                     ErrorWith(MsgReverted, partial.invocations)} :
           partial' = partialOnReject(partial, error)
    /\ UNCHANGED allButPartial

PartialWake ==
    /\ partial.pc = "RETRY_WAIT"
    /\ partial' = partialOnWake(partial)
    /\ UNCHANGED allButPartial

(***************************************************************************)
(* startBot, main and processWallet (src/index.js 387-646).                *)
(* One cycle of main loads config.json and pk.txt, processes the wallets   *)
(* in file order and counts down HOURS_25 seconds; startBot calls main     *)
(* again when the countdown resolves.  The tasks of a wallet are the calls *)
(* processWallet makes on the bot (transfer, deploy, swap): each one       *)
(* returns or throws.  log is the order of what one cycle did.             *)
(***************************************************************************)
MaxWallets == 2

MaxTasks == 2

HOURS_25 == 25 * 60 * 60

LogEvent(e, w) == [e |-> e, w |-> w]

IdleMain ==
    [pc |-> "idle", n |-> 0, nTasks |-> 0, i |-> 0, k |-> 0, active |-> {},
     log |-> <<>>, remainingTime |-> 0, ticks |-> 0]

\* (faulty variant: a delay follows every wallet)
AlwaysDelay(i, n) == TRUE

\* if (i < privateKeys.length - 1)
needsDelay(i, n) == i < n - 1

\* (faulty variant: the countdown resolves one tick early)
ResolveOneTickEarly(remainingTime) == remainingTime <= 1

\* if (remainingTime <= 0)
countdownDone(remainingTime) == remainingTime <= 0

\* main after processWallet(i) has returned: the between-wallets delay or i++
afterProcessWallet(m) ==
    LET r == [m EXCEPT !.log = Append(@, LogEvent("return", m.i)),
                       !.active = @ \ {m.i}, !.k = 0]
    IN  IF needsDelay(r.i, r.n)
        THEN [r EXCEPT !.pc = "betweenWallets", !.log = Append(@, LogEvent("delay", r.i))]
        ELSE [r EXCEPT !.pc = "forTest", !.i = @ + 1]

\* process.exit(1)
exit(m) == [m EXCEPT !.pc = "exited", !.active = {}]

\* (faulty variant: processWallet lets the error of a task through to main)
PropagateWalletError(m) ==
    exit([m EXCEPT !.log = Append(@, LogEvent("failed", m.i))])

\* the catch block of processWallet: log 'Wallet processing failed', return
catchWalletError(m) ==
    afterProcessWallet([m EXCEPT !.log = Append(@, LogEvent("failed", m.i))])

allButMain == <<cError, cResult, cPc, call, outer, inner, submitted, calls, partial, bot, wallet>>

StartBot ==
    /\ main.pc = "idle"
    /\ main' = [main EXCEPT !.pc = "main"]
    /\ UNCHANGED allButMain

\* pk.txt holds n keys; the enabled tasks amount to nTasks calls per wallet
MainLoad ==
    /\ main.pc = "main"
    /\ \E n \in 1..MaxWallets, t \in 0..MaxTasks :
           main' = [main EXCEPT !.pc = "forTest", !.n = n, !.nTasks = t, !.i = 0]
    /\ UNCHANGED allButMain

\* a file is missing, unparsable or without keys: main's catch exits
MainLoadFails ==
    /\ main.pc = "main"
    /\ main' = exit(main)
    /\ UNCHANGED allButMain

\* i < privateKeys.length: call processWallet, else 'All wallets processed'
ForTest ==
    /\ main.pc = "forTest"
    /\ main' = IF main.i < main.n
               THEN [main EXCEPT !.pc = "construct",
                                 !.log = Append(@, LogEvent("start", main.i)),
                                 !.active = @ \cup {main.i}]
               ELSE [main EXCEPT !.pc = "settle"]
    /\ UNCHANGED allButMain

\* new CitreaBot(privateKey), before the try of processWallet
ConstructBot ==
    /\ main.pc = "construct"
    /\ main' = [main EXCEPT !.pc = "tasks", !.k = 0]
    /\ UNCHANGED allButMain

\* an invalid key makes the constructor throw outside the try: main's catch exits
ConstructBotThrows ==
    /\ main.pc = "construct"
    /\ main' = exit(main)
    /\ UNCHANGED allButMain

\* a task returned; await sleep(config.delay.between_tasks)
TaskSucceeds ==
    /\ main.pc = "tasks" /\ main.k < main.nTasks
    /\ main' = [main EXCEPT !.k = @ + 1]
    /\ UNCHANGED allButMain

\* a task threw (its retries are over): the catch of processWallet
TaskFails ==
    /\ main.pc = "tasks" /\ main.k < main.nTasks
    /\ main' = catchWalletError(main)
    /\ UNCHANGED allButMain

\* the try block ran to its end
WalletTasksDone ==
    /\ main.pc = "tasks" /\ main.k = main.nTasks
    /\ main' = afterProcessWallet(main)
    /\ UNCHANGED allButMain

\* await sleep(delay * 1000) is over; i++
BetweenWalletsElapsed ==
    /\ main.pc = "betweenWallets"
    /\ main' = [main EXCEPT !.pc = "forTest", !.i = @ + 1,
                            !.log = Append(@, LogEvent("elapsed", main.i))]
    /\ UNCHANGED allButMain

\* await sleep(1000) is over; the countdown starts.  The countdown reads
\* nothing of the wallet loop, whose values are dropped here.
SettleElapsed ==
    /\ main.pc = "settle"
    /\ main' = [IdleMain EXCEPT !.pc = "countdown", !.remainingTime = HOURS_25]
    /\ UNCHANGED allButMain

\* one call of the setInterval callback
Tick ==
    /\ main.pc = "countdown"
    /\ LET r == main.remainingTime - 1
       IN  main' = [main EXCEPT !.remainingTime = r, !.ticks = @ + 1,
                                !.pc = IF countdownDone(r) THEN "resolved" ELSE @]
    /\ UNCHANGED allButMain

\* main() resolved: 'Cycle completed, starting next iteration', while (true)
StartBotLoop ==
    /\ main.pc = "resolved"
    /\ main' = [IdleMain EXCEPT !.pc = "main"]
    /\ UNCHANGED allButMain

(***************************************************************************)
(* The four transaction methods of CitreaBot (src/index.js 227-383).  Each *)
(* is one outer withRetry whose operation submits its transactions in      *)
(* order and awaits the confirmation of each one in an inner withRetry of  *)
(* its own; a catch block around the operation logs the error and throws   *)
(* it again.  submits[s] and waits[s] count the submissions and the        *)
(* confirmation waits of the s-th transaction of the method; trace is the  *)
(* order of what the call did.                                             *)
(***************************************************************************)
BotMethods == {"selfTransfer", "deployContract", "swapCBTCForUSDC", "swapUSDCForCBTC"}

\* the transactions one run of the operation submits, in order
Transactions(fn) ==
    IF fn = "selfTransfer" THEN <<"sendTransaction">>
    ELSE IF fn = "deployContract" THEN <<"deploy">>
    ELSE IF fn = "swapCBTCForUSDC" THEN <<"swapExactETHForTokens">>
    ELSE IF fn = "swapUSDCForCBTC" THEN <<"approve", "swapExactTokensForETH">>
    ELSE <<>>

IdleBot ==
    [fn |-> "none", step |-> 0, outer |-> IdleCall, inner |-> IdleCall,
     submits |-> <<0, 0>>, waits |-> <<0, 0>>, trace |-> <<>>]

\* an entry of the trace: what happened, to which transaction, in which run
\* of the operation
BotEvent(b, e) ==
    [e |-> e, tx |-> IF e = "attempt" THEN "" ELSE Transactions(b.fn)[b.step],
     o |-> b.outer.invocations]

\* the identity of an error: transaction, outer invocation, inner invocation
BotOrigin(b) == 100 * b.step + OriginOf(b.outer.invocations, b.inner.invocations)

BotErrors(b) == {ErrorWith(MsgTimeout, BotOrigin(b)), ErrorWith(MsgReverted, BotOrigin(b))}

\* (faulty variant: the catch block throws a new error in place of the one it caught)
RethrowWrapped(error) == ErrorWith(MsgReverted, error.origin)

\* the catch block of the operation: logger.error, throw error
rethrow(error) == error

\* the operation after a confirmation: the next transaction or the return
afterConfirmed(b, innerCall) ==
    LET c == [b EXCEPT !.trace = Append(@, BotEvent(b, "confirmed"))]
    IN  IF c.step < Len(Transactions(c.fn))
        THEN [c EXCEPT !.step = @ + 1, !.inner = IdleCall]
        ELSE [c EXCEPT !.inner = innerCall,
                       !.outer = OnResolve(@, IF c.fn = "deployContract"
                                              THEN c.outer.invocations
                                              ELSE innerCall.result)]

\* (faulty variant: a wait that failed is logged and the operation goes on)
ContinueAfterFailedWait(b, innerCall) ==
    IF innerCall.pc = "SUCCESS" THEN afterConfirmed(b, innerCall)
    ELSE IF innerCall.pc = "FAILED"
    THEN LET c == [b EXCEPT !.trace = Append(@, BotEvent(b, "waitFailed"))]
         IN  IF c.step < Len(Transactions(c.fn))
             THEN [c EXCEPT !.step = @ + 1, !.inner = IdleCall]
             ELSE [c EXCEPT !.inner = innerCall,
                            !.outer = OnReject(@, rethrow(innerCall.thrown))]
    ELSE [b EXCEPT !.inner = innerCall]

\* the operation goes on after a step of an inner call: the next transaction,
\* the return of the method's value, or the catch block
afterWait(b, innerCall) ==
    IF innerCall.pc = "SUCCESS" THEN afterConfirmed(b, innerCall)
    ELSE IF innerCall.pc = "FAILED"
    THEN [b EXCEPT !.inner = innerCall,
                   !.trace = Append(@, BotEvent(b, "waitFailed")),
                   !.outer = OnReject(@, rethrow(innerCall.thrown))]
    ELSE [b EXCEPT !.inner = innerCall]

allButBot == <<cError, cResult, cPc, call, outer, inner, submitted, calls, partial, main, wallet>>

BotCall ==
    /\ bot.fn = "none"
    /\ \E fn \in BotMethods :
           bot' = [IdleBot EXCEPT !.fn = fn, !.outer = withRetryEnter(RETRY_CONFIG)]
    /\ UNCHANGED allButBot

\* the outer call runs its operation from the start
BotOuterInvoke ==
    /\ bot.fn # "none" /\ bot.outer.pc = "ATTEMPTING"
    /\ bot' = [bot EXCEPT !.outer = Invoke(@), !.step = 1, !.inner = IdleCall,
                          !.trace = Append(@, [e |-> "attempt", tx |-> "",
                                               o |-> bot.outer.invocations + 1])]
    /\ UNCHANGED allButBot

\* the submission of the current transaction resolved: the inner call starts
BotSubmitResolve ==
    /\ bot.outer.pc = "RUNNING" /\ bot.inner.pc = "idle"
    /\ bot' = [bot EXCEPT !.submits[bot.step] = @ + 1,
                          !.trace = Append(@, BotEvent(bot, "submitted")),
                          !.inner = withRetryEnter(RETRY_CONFIG)]
    /\ UNCHANGED allButBot

\* the submission (or, in deployContract, the compilation before it) threw
BotSubmitReject ==
    /\ bot.outer.pc = "RUNNING" /\ bot.inner.pc = "idle"
    /\ \E error \in BotErrors(bot) :
           bot' = [bot EXCEPT !.submits[bot.step] = @ + 1,
                              !.trace = Append(@, BotEvent(bot, "submitFailed")),
                              !.outer = OnReject(@, rethrow(error))]
    /\ UNCHANGED allButBot

\* the inner call invokes tx.wait() or deployed()
BotWaitInvoke ==
    /\ bot.outer.pc = "RUNNING" /\ bot.inner.pc = "ATTEMPTING"
    /\ bot' = [bot EXCEPT !.inner = Invoke(@), !.waits[bot.step] = @ + 1]
    /\ UNCHANGED allButBot

BotWaitResolve ==
    /\ bot.outer.pc = "RUNNING" /\ bot.inner.pc = "RUNNING"
    /\ bot' = afterWait(bot, OnResolve(bot.inner,
                                       OriginOf(bot.outer.invocations, bot.inner.invocations)))
    /\ UNCHANGED allButBot

BotWaitReject ==
    /\ bot.outer.pc = "RUNNING" /\ bot.inner.pc = "RUNNING"
    /\ \E error \in BotErrors(bot) : bot' = afterWait(bot, OnReject(bot.inner, error))
    /\ UNCHANGED allButBot

BotInnerWake ==
    /\ bot.outer.pc = "RUNNING" /\ bot.inner.pc = "RETRY_WAIT"
    /\ bot' = afterWait(bot, OnWake(bot.inner))
    /\ UNCHANGED allButBot

BotOuterWake ==
    /\ bot.outer.pc = "RETRY_WAIT"
    /\ bot' = [bot EXCEPT !.outer = OnWake(@)]
    /\ UNCHANGED allButBot

(***************************************************************************)
(* The try block of processWallet (src/index.js 395-521), task by task.    *)
(* A position is the section of the block, the repetition i of its loop    *)
(* and, for deployments, the index j into contract_types.  Every task is   *)
(* one awaited call on the bot and is followed by                          *)
(* await sleep(config.delay.between_tasks); a throw leaves the try for the *)
(* catch block.  log is the order of what the call did.                    *)
(***************************************************************************)
MaxRepeat == 2

ContractTypeLists == {<<>>, <<"ERC20">>, <<"SimpleStorage", "ERC20">>}

\* config.tasks, as far as processWallet reads it
WalletConfigs ==
    [self_transfer : [enabled : BOOLEAN, repeat : 0..MaxRepeat],
     contract_deploy : [enabled : BOOLEAN, repeat : 0..MaxRepeat,
                        contract_types : ContractTypeLists],
     swap : [enabled : BOOLEAN, cbtc_to_usdc : BOOLEAN, usdc_to_cbtc : BOOLEAN]]

Position(sec, i, j) == [sec |-> sec, i |-> i, j |-> j]

EndOfTry == Position("end", 0, 0)

\* the first task at or after the start of a section
RECURSIVE enterSection(_, _)
enterSection(config, sec) ==
    IF sec = "self_transfer"
    THEN IF config.self_transfer.enabled /\ 0 < config.self_transfer.repeat
         THEN Position(sec, 0, 0)
         ELSE enterSection(config, "contract_deploy")
    ELSE IF sec = "contract_deploy"
    THEN IF /\ config.contract_deploy.enabled
            /\ 0 < config.contract_deploy.repeat
            /\ Len(config.contract_deploy.contract_types) > 0
         THEN Position(sec, 0, 1)
         ELSE enterSection(config, "cbtc_to_usdc")
    ELSE IF sec = "cbtc_to_usdc"
    THEN IF config.swap.enabled /\ config.swap.cbtc_to_usdc
         THEN Position(sec, 0, 0)
         ELSE enterSection(config, "usdc_to_cbtc")
    ELSE IF config.swap.enabled /\ config.swap.usdc_to_cbtc
         THEN Position("usdc_to_cbtc", 0, 0)
         ELSE EndOfTry

\* the task after the one at pos
nextPosition(config, pos) ==
    IF pos.sec = "self_transfer"
    THEN IF pos.i + 1 < config.self_transfer.repeat
         THEN Position(pos.sec, pos.i + 1, 0)
         ELSE enterSection(config, "contract_deploy")
    ELSE IF pos.sec = "contract_deploy"
    THEN IF pos.j < Len(config.contract_deploy.contract_types)
         THEN Position(pos.sec, pos.i, pos.j + 1)
         ELSE IF pos.i + 1 < config.contract_deploy.repeat
         THEN Position(pos.sec, pos.i + 1, 1)
         ELSE enterSection(config, "cbtc_to_usdc")
    ELSE IF pos.sec = "cbtc_to_usdc"
    THEN enterSection(config, "usdc_to_cbtc")
    ELSE EndOfTry

\* the bot method a position calls, with the contract type of a deployment
taskAt(config, pos) ==
    [method |-> IF pos.sec = "self_transfer" THEN "selfTransfer"
                ELSE IF pos.sec = "contract_deploy" THEN "deployContract"
                ELSE IF pos.sec = "cbtc_to_usdc" THEN "swapCBTCForUSDC"
                ELSE "swapUSDCForCBTC",
     contractType |-> IF pos.sec = "contract_deploy"
                      THEN config.contract_deploy.contract_types[pos.j] ELSE "",
     pos |-> pos]

WalletEvent(e, task) == [e |-> e, task |-> task]

IdleWallet ==
    [pc |-> "idle",
     config |-> [self_transfer |-> [enabled |-> FALSE, repeat |-> 0],
                 contract_deploy |-> [enabled |-> FALSE, repeat |-> 0,
                                      contract_types |-> <<>>],
                 swap |-> [enabled |-> FALSE, cbtc_to_usdc |-> FALSE,
                           usdc_to_cbtc |-> FALSE]],
     pos |-> EndOfTry, log |-> <<>>]

\* control reaches pos: the task there is called, or the try block is over
startAt(w, pos) ==
    IF pos = EndOfTry THEN [w EXCEPT !.pc = "returned", !.pos = pos]
    ELSE [w EXCEPT !.pc = "task", !.pos = pos,
                   !.log = Append(@, WalletEvent("start", taskAt(w.config, pos)))]

\* (faulty variant: the catch block sits inside the loops, around each task)
CatchPerTask(w) ==
    [w EXCEPT !.pc = "sleep",
              !.log = @ \o <<WalletEvent("failed", taskAt(w.config, w.pos)),
                             WalletEvent("delay", taskAt(w.config, w.pos))>>]

\* a task threw: the catch block of line 516, then processWallet returns
onTaskError(w) ==
    [w EXCEPT !.pc = "returned",
              !.log = Append(@, WalletEvent("failed", taskAt(w.config, w.pos)))]

\* (faulty variant: the next task does not wait for the delay)
SkipTaskDelay(w) ==
    startAt([w EXCEPT !.log = Append(@, WalletEvent("done", taskAt(w.config, w.pos)))],
            nextPosition(w.config, w.pos))

\* a task returned: the success log, then await sleep(between_tasks)
onTaskDone(w) ==
    [w EXCEPT !.pc = "sleep",
              !.log = @ \o <<WalletEvent("done", taskAt(w.config, w.pos)),
                             WalletEvent("delay", taskAt(w.config, w.pos))>>]

allButWallet == <<cError, cResult, cPc, call, outer, inner, submitted, calls, partial, main, bot>>

WalletCall ==
    /\ wallet.pc = "idle"
    /\ \E config \in WalletConfigs :
           wallet' = startAt([IdleWallet EXCEPT !.config = config],
                             enterSection(config, "self_transfer"))
    /\ UNCHANGED allButWallet

WalletTaskResolves ==
    /\ wallet.pc = "task"
    /\ wallet' = onTaskDone(wallet)
    /\ UNCHANGED allButWallet

WalletTaskRejects ==
    /\ wallet.pc = "task"
    /\ wallet' = onTaskError(wallet)
    /\ UNCHANGED allButWallet

WalletSleepElapsed ==
    /\ wallet.pc = "sleep"
    /\ wallet' = startAt(wallet, nextPosition(wallet.config, wallet.pos))
    /\ UNCHANGED allButWallet

(***************************************************************************)
(* The parts below are idle in the specifications that do not use them.    *)
(***************************************************************************)
RestIdle ==
    /\ calls = IdleCalls /\ partial = IdlePartial /\ main = IdleMain /\ bot = IdleBot
    /\ wallet = IdleWallet

(***************************************************************************)
(* Specifications.                                                         *)
(***************************************************************************)
\* one withRetry call with any policy and any operation
Init ==
    /\ cError = Undefined /\ cResult = NotCalled /\ cPc = "idle"
    /\ call = IdleCall /\ outer = IdleCall /\ inner = IdleCall /\ submitted = 0
    /\ RestIdle

Next == RetryCall \/ RetryInvoke \/ RetryResolve \/ RetryReject \/ RetryWake

Spec == Init /\ [][Next]_vars

\* isRetryableError on one input
InitClassifier ==
    /\ cError \in TestErrors /\ cResult = NotCalled /\ cPc = "call"
    /\ call = IdleCall /\ outer = IdleCall /\ inner = IdleCall /\ submitted = 0
    /\ RestIdle

NextClassifier == ClassifyCall

SpecClassifier == InitClassifier /\ [][NextClassifier]_vars

\* one selfTransfer call
NextNested ==
    \/ TransferCall \/ OuterInvoke \/ SendReject \/ SendResolve
    \/ InnerInvoke \/ InnerResolve \/ InnerReject \/ InnerWake \/ OuterWake

SpecNested == Init /\ [][NextNested]_vars

\* withRetry calls interleaved on the event loop
NextConcurrent ==
    \E i \in CallIds :
        ConcCall(i) \/ ConcInvoke(i) \/ ConcResolve(i) \/ ConcReject(i) \/ ConcWake(i)

SpecConcurrent == Init /\ [][NextConcurrent]_vars

\* one withRetry call on an event loop that keeps running: an operation that
\* was invoked settles, and a timer that was set fires
SpecLive == Spec /\ WF_vars(Next)

\* one withRetry call with an absent, partial or complete policy argument
NextPartial ==
    PartialCall \/ PartialInvoke \/ PartialResolve \/ PartialReject \/ PartialWake

SpecPartial == Init /\ [][NextPartial]_vars

\* the bot process: startBot calling main forever.  Timers fire and every
\* awaited task settles, so a step that can be taken is eventually taken.
NextMain ==
    \/ StartBot \/ MainLoad \/ MainLoadFails \/ ForTest
    \/ ConstructBot \/ ConstructBotThrows
    \/ TaskSucceeds \/ TaskFails \/ WalletTasksDone
    \/ BetweenWalletsElapsed \/ SettleElapsed \/ Tick \/ StartBotLoop

SpecMain == Init /\ [][NextMain]_vars /\ WF_vars(NextMain)

\* one call of one of the bot's transaction methods
NextBot ==
    \/ BotCall \/ BotOuterInvoke \/ BotSubmitResolve \/ BotSubmitReject
    \/ BotWaitInvoke \/ BotWaitResolve \/ BotWaitReject
    \/ BotInnerWake \/ BotOuterWake

SpecBot == Init /\ [][NextBot]_vars

\* one withRetry call, with a policy of numbers or with a policy argument
\* that may lack fields
NextLoopExit == (partial.pc = "idle" /\ Next) \/ (call.pc = "idle" /\ NextPartial)

SpecLoopExit == Init /\ [][NextLoopExit]_vars

\* one processWallet call, from the start of its try block
NextWallet ==
    WalletCall \/ WalletTaskResolves \/ WalletTaskRejects \/ WalletSleepElapsed

SpecWallet == Init /\ [][NextWallet]_vars

(***************************************************************************)
(* The statements checked.  They are written against the specification's   *)
(* own vocabulary: RetryableErrorSet is the list of section 3 of the       *)
(* specification (all lower case), and Retryable/NonRetryable classify an  *)
(* error by it, independently of isRetryableError.                         *)
(***************************************************************************)
RetryableErrorSet ==
    { <<"t", "i", "m", "e", "o", "u", "t">>,
      <<"n", "e", "t", "w", "o", "r", "k", " ", "e", "r", "r", "o", "r">>,
      <<"n", "o", "n", "c", "e", " ", "t", "o", "o", " ", "l", "o", "w">>,
      <<"t", "r", "a", "n", "s", "a", "c", "t", "i", "o", "n", " ", "u", "n", "d", "e", "r", "p", "r", "i", "c", "e", "d">>,
      <<"i", "n", "s", "u", "f", "f", "i", "c", "i", "e", "n", "t", " ", "f", "u", "n", "d", "s", " ", "f", "o", "r", " ", "g", "a", "s">>,
      <<"r", "e", "p", "l", "a", "c", "e", "m", "e", "n", "t", " ", "f", "e", "e", " ", "t", "o", "o", " ", "l", "o", "w">>,
      <<"r", "a", "t", "e", " ", "l", "i", "m", "i", "t", " ", "e", "x", "c", "e", "e", "d", "e", "d">>,
      <<"i", "n", "t", "e", "r", "n", "a", "l", " ", "j", "s", "o", "n", "-", "r", "p", "c", " ", "e", "r", "r", "o", "r">>,
      <<"c", "o", "n", "n", "e", "c", "t", "i", "o", "n", " ", "r", "e", "s", "e", "t">>,
      <<"t", "o", "o", " ", "m", "a", "n", "y", " ", "r", "e", "q", "u", "e", "s", "t", "s">> }

\* the lower-cased message contains a member of RetryableErrorSet
ContainsRetryableSubstring(msg) ==
    LET lower == toLowerCase(msg)
    IN  \E p \in RetryableErrorSet :
            \E i \in 1..(Len(lower) - Len(p) + 1) : SubSeq(lower, i, i + Len(p) - 1) = p

Retryable(error) == error.hasMessage /\ ContainsRetryableSubstring(error.message)

NonRetryable(error) == error.hasMessage /\ ~ContainsRetryableSubstring(error.message)

AllRetryable(errors) == \A i \in 1..Len(errors) : Retryable(errors[i])

RECURSIVE Pow(_, _)
Pow(b, n) == IF n = 0 THEN 1 ELSE b * Pow(b, n - 1)

\* min(initialDelay * backoffFactor^(j-1), maxDelay)
ClosedFormDelay(policy, j) ==
    Min(policy.initialDelay * Pow(policy.backoffFactor, j - 1), policy.maxDelay)

\* C1: with maxAttempts >= 1 a withRetry call that has ended either returned the
\* result of the attempt that succeeded (its last one), or threw the very
\* error object its last attempt threw, whatever that error is (also one
\* with an empty or a missing message).
C1_OutcomeIsFromAnAttempt ==
    call.policy.maxAttempts >= 1 =>
        /\ call.pc = "SUCCESS" =>
               /\ call.result = call.invocations
               /\ Len(call.errors) = call.invocations - 1
        /\ call.pc = "FAILED" =>
               /\ Len(call.errors) = call.invocations
               /\ call.invocations >= 1
               /\ call.thrown = call.errors[Len(call.errors)]

\* C2: when every attempt fails with a retryable error and maxAttempts = N >= 1,
\* the call fails after exactly N invocations and N-1 sleeps with the error of
\* the N-th attempt; under the default policy: 3 invocations, sleeps 1000, 2000.
C2_ExhaustedBudget ==
    (call.pc = "FAILED" /\ call.policy.maxAttempts >= 1 /\ AllRetryable(call.errors)) =>
        LET N == call.policy.maxAttempts
        IN  /\ call.invocations = N
            /\ Len(call.errors) = N
            /\ Len(call.slept) = N - 1
            /\ call.thrown = call.errors[N]
            /\ call.thrown.origin = N
            /\ call.policy = RETRY_CONFIG =>
                   call.invocations = 3 /\ call.slept = <<1000, 2000>>

C2_Witness ==
    /\ call.pc = "FAILED" /\ call.policy = RETRY_CONFIG
    /\ AllRetryable(call.errors) /\ call.invocations = 3
    /\ call.slept = <<1000, 2000>>

C4_SuccessEndsTheCall ==
    /\ [](call.pc = "SUCCESS" =>
             /\ call.result = call.invocations
             /\ call.errors = <<>> =>
                    call.invocations = 1 /\ call.slept = <<>> /\ call.events = <<>>)
    /\ [][(call.pc = "RUNNING" /\ call'.errors = call.errors) =>
              (call'.pc = "SUCCESS" /\ call'.invocations = call.invocations
               /\ call'.slept = call.slept /\ call'.events = call.events)]_vars
    /\ [][call.pc = "SUCCESS" => call' = call]_vars

C4_Witness ==
    /\ call.pc = "SUCCESS" /\ call.invocations = 1 /\ call.result = 1
    /\ call.errors = <<>> /\ call.slept = <<>>

\* C5: retryable failures on attempts 1..k-1 with k <= maxAttempts do not fail
\* the call, and a success on attempt k returns the result of attempt k after
\* exactly k invocations and k-1 sleeps.
C5_SucceedsOnAttemptK ==
    call.policy.maxAttempts >= 1 =>
        /\ (AllRetryable(call.errors) /\ Len(call.errors) < call.policy.maxAttempts) =>
               call.pc # "FAILED"
        /\ call.pc = "SUCCESS" =>
               LET k == Len(call.errors) + 1
               IN  /\ AllRetryable(call.errors)
                   /\ k <= call.policy.maxAttempts
                   /\ call.invocations = k
                   /\ call.result = k
                   /\ Len(call.slept) = k - 1

C5_Witness ==
    /\ call.pc = "SUCCESS" /\ call.invocations = 3 /\ call.result = 3
    /\ Len(call.errors) = 2 /\ Len(call.slept) = 2

\* C6: the first sleep of a call lasts exactly initialDelay and the j-th sleep
\* lasts min(initialDelay * backoffFactor^(j-1), maxDelay), for every j >= 1
\* under the data model's initialDelay <= maxDelay (for j >= 2 in any case);
\* the delay changes only when a sleep ends, by one multiplication and one
\* cap, before the next attempt.
C6_BackoffSchedule ==
    /\ [](/\ Len(call.slept) >= 1 => call.slept[1] = call.policy.initialDelay
          /\ \A j \in 2..Len(call.slept) :
                 call.slept[j] = ClosedFormDelay(call.policy, j)
          /\ call.policy.initialDelay <= call.policy.maxDelay =>
                 \A j \in 1..Len(call.slept) :
                     call.slept[j] = ClosedFormDelay(call.policy, j)
          /\ call.pc = "RETRY_WAIT" => call.slept[Len(call.slept)] = call.delay)
    /\ [][IF call.pc = "RETRY_WAIT"
          THEN /\ call'.delay = Min(call.delay * call.policy.backoffFactor,
                                    call.policy.maxDelay)
               /\ call'.pc = "ATTEMPTING"
               /\ call'.attempt = call.attempt + 1
               /\ call'.slept = call.slept
          ELSE call.pc # "idle" => call'.delay = call.delay]_vars

C6_Witness ==
    /\ call.policy.backoffFactor = 3 /\ call.policy.initialDelay = 1000
    /\ call.policy.maxDelay = 10000
    /\ call.slept = <<1000, 3000>>
    /\ call.pc = "ATTEMPTING" /\ call.attempt = 3 /\ call.delay = 9000

\* C7: with backoffFactor > 1 and initialDelay <= maxDelay the delays slept in
\* one call never decrease and never exceed maxDelay.
C7_MonotoneAndCapped ==
    (call.policy.backoffFactor > 1 /\ call.policy.initialDelay <= call.policy.maxDelay) =>
        /\ \A j \in 1..Len(call.slept) : call.slept[j] <= call.policy.maxDelay
        /\ \A i, j \in 1..Len(call.slept) : i <= j => call.slept[i] <= call.slept[j]

C7_Witness ==
    /\ call.policy.backoffFactor > 1
    /\ call.policy.initialDelay < call.policy.maxDelay
    /\ Len(call.slept) = 2
    /\ call.slept[1] < call.slept[2]
    /\ call.slept[2] = call.policy.maxDelay
    /\ call.policy.initialDelay * call.policy.backoffFactor > call.policy.maxDelay

\* C8: for an error with a message, isRetryableError returns TRUE exactly when
\* the lower-cased message contains a member of RetryableErrorSet; so
\* "Network Error" and "NETWORK ERROR" are retryable.
C8_ClassifiesBySubstring ==
    (cPc = "done" /\ cError.hasMessage) =>
        /\ ~cResult.threw
        /\ cResult.value <=> ContainsRetryableSubstring(cError.message)
        /\ cError.message \in {MsgNetworkErrorMixed, MsgNetworkErrorUpper} => cResult.value

C8_Witness ==
    /\ cPc = "done" /\ cResult.value /\ ~cResult.threw
    /\ cError.message = <<"T">> \o toUpperCase(retryableErrors[8]) \o <<" ">>

\* C9: isRetryableError returns a boolean for every error value and never
\* fails, and an empty or missing message is classified as not retryable.
C9_TotalAndFailClosed ==
    cPc = "done" =>
        /\ ~cResult.threw
        /\ (~cError.hasMessage \/ cError.message = <<>>) => ~cResult.value

\* C10: in selfTransfer the inner call's steps leave the outer call's attempt
\* and delay alone; the outer call records a failed attempt during the inner
\* call only in the step in which the inner call fails, records the inner
\* call's final error, classifies it itself and retries within its own
\* budget; every inner call starts with attempt 1 and delay initialDelay.
C10_IndependentAttemptState ==
    /\ [](/\ outer.pc # "idle" =>
                 /\ outer.attempt = Len(outer.slept) + (IF outer.pc = "RETRY_WAIT" THEN 0 ELSE 1)
                 /\ outer.attempt <= outer.policy.maxAttempts
                 /\ outer.invocations <= outer.attempt
                 /\ \A j \in 1..Len(outer.slept) :
                        outer.slept[j] = ClosedFormDelay(outer.policy, j)
          /\ inner.pc # "idle" =>
                 /\ inner.attempt = Len(inner.slept) + (IF inner.pc = "RETRY_WAIT" THEN 0 ELSE 1)
                 /\ \A j \in 1..Len(inner.slept) :
                        inner.slept[j] = ClosedFormDelay(inner.policy, j))
    /\ [][(outer.pc = "RUNNING" /\ inner.pc # "idle") =>
              /\ outer'.attempt = outer.attempt
              /\ outer'.delay = outer.delay
              /\ outer'.invocations = outer.invocations
              /\ IF inner'.pc = "FAILED"
                 THEN /\ outer'.errors = Append(outer.errors, inner'.thrown)
                      /\ outer'.lastError = inner'.thrown
                      /\ outer'.pc = IF Retryable(inner'.thrown)
                                        /\ outer.attempt < outer.policy.maxAttempts
                                     THEN "RETRY_WAIT" ELSE "FAILED"
                 ELSE outer'.errors = outer.errors]_vars
    /\ [][(inner.pc = "idle" /\ inner'.pc # "idle") =>
              /\ inner'.attempt = 1
              /\ inner'.delay = inner'.policy.initialDelay
              /\ inner'.invocations = 0 /\ inner'.slept = <<>>]_vars

\* the second inner call runs afresh after the first one used up its retries
C10_Witness ==
    /\ outer.attempt = 2 /\ outer.delay = 2000 /\ outer.pc = "RUNNING"
    /\ Len(outer.errors) = 1 /\ outer.errors[1].origin = OriginOf(1, 3)
    /\ inner.pc = "RETRY_WAIT" /\ inner.attempt = 1 /\ inner.delay = 1000
    /\ submitted = 2

\* the state of a call that runs alone under policy, right after its
\* operation threw the first k of errors
RECURSIVE AloneAfter(_, _, _)
AloneAfter(policy, errors, k) ==
    IF k = 0 THEN withRetryEnter(policy)
    ELSE LET before == AloneAfter(policy, errors, k - 1)
             ready == IF before.pc = "RETRY_WAIT" THEN OnWake(before) ELSE before
         IN  OnReject(Invoke(ready), errors[k])

\* the state of call c had it run alone with the same policy and the same
\* outcomes of its operation, at the position c is at
AloneAt(c) ==
    LET last == AloneAfter(c.policy, c.errors, Len(c.errors))
        ready == IF last.pc = "RETRY_WAIT" THEN OnWake(last) ELSE last
    IN  CASE c.pc \in {"FAILED", "RETRY_WAIT"} -> last
          [] c.pc = "ATTEMPTING" -> ready
          [] c.pc = "RUNNING" -> Invoke(ready)
          [] c.pc = "SUCCESS" -> OnResolve(Invoke(ready), c.result)
          [] OTHER -> c

\* C11: under every interleaving each call in flight has the attempt counter,
\* delay, invocations, sleeps and outcome it would have running alone with
\* the same policy and operation outcomes, and a step of one call changes no
\* other call.
C11_CallsDoNotInterfere ==
    /\ [](\A i \in CallIds : calls[i].pc # "idle" => calls[i] = AloneAt(calls[i]))
    /\ [][\A i, j \in CallIds :
              (i # j /\ calls'[i] # calls[i]) => calls'[j] = calls[j]]_vars

C11_Witness ==
    /\ calls[1].policy = RETRY_CONFIG /\ calls[1].pc = "RETRY_WAIT"
    /\ calls[1].attempt = 2 /\ calls[1].delay = 2000
    /\ calls[2].policy # RETRY_CONFIG /\ calls[2].pc = "FAILED"
    /\ calls[2].invocations = 2 /\ calls[2].slept = <<2000>>
    /\ Retryable(calls[2].thrown)

RECURSIVE SumSeq(_)
SumSeq(q) == IF q = <<>> THEN 0 ELSE q[1] + SumSeq(Tail(q))

\* C12: when every invocation of the operation settles, a call with
\* maxAttempts >= 1 ends in SUCCESS or FAILED, after at most maxAttempts
\* invocations and maxAttempts-1 sleeps; with initialDelay <= maxDelay (the
\* data model's invariant) the time slept is at most
\* (maxAttempts-1) * maxDelay, and at most 3000 under the default policy.
C12_TerminatesWithinBudget ==
    /\ []((call.pc # "idle" /\ call.policy.maxAttempts >= 1) =>
             /\ call.invocations <= call.policy.maxAttempts
             /\ Len(call.slept) <= call.policy.maxAttempts - 1
             /\ call.policy.initialDelay <= call.policy.maxDelay =>
                    SumSeq(call.slept) <=
                        (call.policy.maxAttempts - 1) * call.policy.maxDelay
             /\ call.policy = RETRY_CONFIG => SumSeq(call.slept) <= 3000)
    /\ (call.pc # "idle" /\ call.policy.maxAttempts >= 1)
           ~> (call.pc \in {"SUCCESS", "FAILED"})

C12_Witness ==
    /\ call.policy = RETRY_CONFIG /\ call.pc = "SUCCESS"
    /\ call.invocations = 3 /\ SumSeq(call.slept) = 3000

\* the state of the specification's machine a call is in: awaiting the
\* operation is part of ATTEMPTING
MachineState(c) == IF c.pc = "RUNNING" THEN "ATTEMPTING" ELSE c.pc

\* C13: a call with maxAttempts >= 1 starts in ATTEMPTING with attempt 1; a
\* failed attempt leads to FAILED exactly when its error is not retryable or
\* attempt = maxAttempts, and to RETRY_WAIT exactly when it is retryable and
\* attempt < maxAttempts; RETRY_WAIT leads back to ATTEMPTING; SUCCESS and
\* FAILED are left by no transition.
C13_StateMachine ==
    /\ [][(call.pc = "idle" /\ call'.pc # "idle" /\ call'.policy.maxAttempts >= 1) =>
              (call'.pc = "ATTEMPTING" /\ call'.attempt = 1)]_vars
    /\ [][(call.pc # "idle" /\ call.policy.maxAttempts >= 1
             /\ MachineState(call') # MachineState(call)) =>
              \/ /\ MachineState(call) = "ATTEMPTING"
                 /\ call'.pc \in {"SUCCESS", "RETRY_WAIT", "FAILED"}
              \/ /\ call.pc = "RETRY_WAIT"
                 /\ call'.pc = "ATTEMPTING"]_vars
    /\ [][(call.pc = "RUNNING" /\ call.policy.maxAttempts >= 1
             /\ call'.errors # call.errors) =>
              LET error == call'.errors[Len(call'.errors)]
                  last == call.attempt = call.policy.maxAttempts
              IN  /\ call'.pc = "FAILED" <=> (~Retryable(error) \/ last)
                  /\ call'.pc = "RETRY_WAIT" <=> (Retryable(error) /\ ~last)
                  /\ call'.pc \in {"FAILED", "RETRY_WAIT"}]_vars
    /\ [][call.pc \in {"SUCCESS", "FAILED"} => call'.pc = call.pc]_vars

C13_Witness ==
    /\ call.pc = "RETRY_WAIT" /\ call.attempt = 2 /\ call.policy.maxAttempts = 3
    /\ Len(call.errors) = 2 /\ AllRetryable(call.errors)

\* C14 as stated: a call without a policy runs under the default policy, and
\* a call with a policy that supplies only some fields takes the default for
\* each missing field, so the operation is attempted under a complete policy.
C14_Original ==
    partial.pc # "idle" =>
        /\ \A k \in PolicyFields :
               /\ partial.params[k].t = "number"
               /\ partial.arg.fields[k].t = "undefined" =>
                      partial.params[k] = defaultPolicy[k]
        /\ partial.pc \in {"SUCCESS", "FAILED"} => partial.invocations >= 1

\* C14 as amended: a call without a policy runs under the default policy
\* (3, 1000, 10000, 2); a policy object that is passed is used as a whole, so
\* a field it lacks is undefined and not defaulted; without maxAttempts the
\* operation is never invoked and the call throws the unset lastError, and
\* without initialDelay the first sleep is a timeout of 0.
C14_Amended ==
    partial.pc # "idle" =>
        /\ ~partial.arg.given =>
               /\ partial.params = defaultPolicy
               /\ partial.params.maxAttempts = jsNumber(3)
               /\ partial.params.initialDelay = jsNumber(1000)
               /\ partial.params.maxDelay = jsNumber(10000)
               /\ partial.params.backoffFactor = jsNumber(2)
               /\ partial.invocations <= 3
               /\ \A j \in 1..Len(partial.slept) : partial.slept[j] = 1000 * Pow(2, j - 1)
        /\ partial.arg.given =>
               \A k \in PolicyFields : partial.params[k] = partial.arg.fields[k]
        /\ partial.params.maxAttempts.t = "undefined" =>
               /\ partial.pc = "FAILED" /\ partial.invocations = 0
               /\ partial.thrown = Undefined
        /\ (partial.params.initialDelay.t = "undefined" /\ Len(partial.slept) >= 1) =>
               partial.slept[1] = 0

C14_Witness ==
    /\ partial.pc = "FAILED" /\ partial.arg.given
    /\ partial.arg.fields.maxAttempts = jsUndefined
    /\ partial.arg.fields.initialDelay = jsNumber(500)
    /\ partial.params.maxAttempts = jsUndefined
    /\ partial.invocations = 0 /\ partial.thrown = Undefined

HasEvent(e, w) == \E p \in 1..Len(main.log) : main.log[p] = LogEvent(e, w)

\* C15: within one cycle wallet 0 starts first and wallet w > 0 starts right
\* after wallet w-1 has returned, its between-wallets delay has begun and
\* elapsed; at most one wallet is in processing; no delay follows the last wallet.
C15_SequentialWallets ==
    /\ Cardinality(main.active) <= 1
    /\ \A p \in 1..Len(main.log) :
           /\ main.log[p].e = "start" =>
                  IF main.log[p].w = 0 THEN p = 1
                  ELSE /\ p >= 5
                       /\ main.log[p - 1] = LogEvent("elapsed", main.log[p].w - 1)
                       /\ main.log[p - 2] = LogEvent("delay", main.log[p].w - 1)
                       /\ main.log[p - 3] = LogEvent("return", main.log[p].w - 1)
                       /\ \E q \in 1..(p - 4) :
                              main.log[q] = LogEvent("start", main.log[p].w - 1)
           /\ main.log[p].e = "delay" => main.log[p].w < main.n - 1
           /\ main.log[p].e \in {"failed", "return"} =>
                  \E q \in 1..(p - 1) : main.log[q] = LogEvent("start", main.log[p].w)
    /\ main.pc = "settle" =>
           /\ main.log[Len(main.log)] = LogEvent("return", main.n - 1)
           /\ \A w \in 0..(main.n - 1) : HasEvent("start", w) /\ HasEvent("return", w)
    /\ main.active # {} => main.active = {main.i} /\ main.pc \in {"construct", "tasks"}

C15_Witness ==
    /\ main.pc = "settle" /\ main.n >= 2
    /\ HasEvent("elapsed", 0) /\ HasEvent("start", 1) /\ HasEvent("return", main.n - 1)

LastEvent == main.log[Len(main.log)]

WalletFailureIsContained ==
    /\ \A w \in 0..(MaxWallets - 1) :
           HasEvent("failed", w) =>
               /\ HasEvent("return", w)
               /\ main.pc \in {"betweenWallets", "forTest", "construct", "tasks",
                               "settle", "exited"}
    /\ (main.pc = "exited" /\ main.log # <<>>) => LastEvent.e = "start"
    /\ main.pc = "settle" =>
           \A w \in 0..(main.n - 1) : HasEvent("start", w) /\ HasEvent("return", w)

\* C16: when a task of wallet w throws, processWallet logs the wallet failure
\* and returns normally (main never exits right after a task failure; it exits
\* only while loading or in the bot constructor), the cycle ends only after
\* every wallet has been started and has returned, and a failed wallet that
\* is not the last is followed by the start of the next wallet.
C16_FailureDoesNotAbortBatch ==
    /\ []WalletFailureIsContained
    /\ \A w \in 0..(MaxWallets - 1) :
           (HasEvent("failed", w) /\ w < main.n - 1) ~> HasEvent("start", w + 1)

C16_Witness ==
    /\ main.pc = "settle" /\ main.n >= 2
    /\ HasEvent("failed", 0) /\ HasEvent("start", 1) /\ HasEvent("return", 1)

\* C17: the countdown starts after the wallets, leaves only by resolving,
\* and resolves exactly at the 90000th tick with no time remaining; main is
\* called again only after a countdown has resolved (or at the first start);
\* every countdown is followed by the next call of main, and the bot keeps
\* starting cycles for ever unless it has exited on a fatal error.
C17_CountdownThenNextCycle ==
    /\ [][/\ main.pc = "countdown" => main'.pc \in {"countdown", "resolved"}
          /\ (main'.pc = "resolved" /\ main.pc # "resolved") =>
                 /\ main.pc = "countdown"
                 /\ main'.ticks = 90000 /\ main'.remainingTime = 0
          /\ (main'.pc = "countdown" /\ main.pc # "countdown") =>
                 /\ main.pc = "settle"
                 /\ main'.ticks = 0 /\ main'.remainingTime = 90000
          /\ (main'.pc = "main" /\ main.pc # "main") => main.pc \in {"idle", "resolved"}
          /\ main.pc = "countdown" =>
                 main'.ticks = main.ticks + 1 /\ main'.remainingTime = main.remainingTime - 1
         ]_vars
    /\ (main.pc = "settle") ~> (main.pc = "countdown")
    /\ (main.pc = "countdown") ~> (main.pc = "main")
    /\ []<>(main.pc \in {"main", "exited"})

C17_Witness == main.pc = "resolved" /\ main.ticks = 90000 /\ main.remainingTime = 0

\* C18: the j-th retry event of a call is emitted in the catch block that
\* starts the j-th sleep, so a sleeping call has already logged its event; it
\* carries attempt number j, the budget maxAttempts, the error of attempt j
\* and the delay of the j-th sleep (in seconds); events and sleeps are equal
\* in number; a success and the failure that ends the call emit nothing.
C18_OneEventPerRetry ==
    /\ Len(call.events) = Len(call.slept)
    /\ \A j \in 1..Len(call.events) :
           /\ call.events[j].attempt = j
           /\ j <= call.invocations
           /\ call.events[j].maxAttempts = call.policy.maxAttempts
           /\ call.events[j].error = call.errors[j]
           /\ call.events[j].nextRetryDelay =
                  <<call.slept[j] \div 1000, call.slept[j] % 1000>>
    /\ call.pc = "RETRY_WAIT" =>
           /\ Len(call.events) = call.attempt
           /\ Len(call.events) = Len(call.errors)
    /\ call.pc = "SUCCESS" =>
           /\ Len(call.events) = call.invocations - 1
           /\ Len(call.events) = Len(call.errors)
    /\ (call.pc = "FAILED" /\ call.invocations > 0) =>
           /\ Len(call.events) = call.invocations - 1
           /\ Len(call.events) = Len(call.errors) - 1

C18_Witness ==
    /\ call.pc = "FAILED" /\ call.policy = RETRY_CONFIG
    /\ Len(call.events) = 2 /\ call.invocations = 3
    /\ call.events[2].attempt = 2 /\ call.events[2].maxAttempts = 3
    /\ call.events[2].nextRetryDelay = <<2, 0>>

\* the delay after u backoff computations
RECURSIVE DelayAfterUpdates(_, _)
DelayAfterUpdates(policy, u) ==
    IF u = 0 THEN policy.initialDelay
    ELSE Min(DelayAfterUpdates(policy, u - 1) * policy.backoffFactor, policy.maxDelay)

BudgetExhausted ==
    call.pc = "FAILED" /\ call.policy.maxAttempts >= 1 /\ AllRetryable(call.errors)

\* C19 as stated: the failure of attempt maxAttempts also runs the backoff
\* computation, so a call that exhausted its budget has updated the delay
\* maxAttempts times.
C19_Original ==
    BudgetExhausted => call.delay = DelayAfterUpdates(call.policy, call.policy.maxAttempts)

\* C19 as amended: the failure that ends a call leaves the delay as it is,
\* because the rethrow precedes the backoff computation; the delay is updated
\* once after each sleep, so a call that exhausted its budget has updated it
\* maxAttempts - 1 times; with maxAttempts >= 2 the last update, made after
\* the last sleep, yields a delay that is never slept, and with
\* maxAttempts = 1 the delay is still initialDelay.
C19_Amended ==
    /\ [][(call.pc = "RUNNING" /\ call'.pc = "FAILED") => call'.delay = call.delay]_vars
    /\ [](BudgetExhausted =>
            /\ call.delay = DelayAfterUpdates(call.policy, call.policy.maxAttempts - 1)
            /\ Len(call.slept) = call.policy.maxAttempts - 1
            /\ call.policy.maxAttempts >= 2 =>
                   call.delay = Min(call.slept[Len(call.slept)] * call.policy.backoffFactor,
                                    call.policy.maxDelay)
            /\ call.policy.maxAttempts = 1 => call.delay = call.policy.initialDelay)

C19_Witness ==
    /\ BudgetExhausted /\ call.policy = RETRY_CONFIG
    /\ call.invocations = 3 /\ call.slept = <<1000, 2000>> /\ call.delay = 4000

TotalSubmits == bot.submits[1] + bot.submits[2]

TotalWaits == bot.waits[1] + bot.waits[2]

\* C20 as stated: in one call of any of the four methods there are at most
\* 3 submissions and at most 9 confirmation waits.
C20_Original == bot.fn # "none" => TotalSubmits <= 3 /\ TotalWaits <= 9

\* C20 as amended: both retries run under the default policy; an inner wait
\* that ends with a retryable error makes the outer call run again unless
\* that was its third attempt; each transaction of a method is submitted at
\* most 3 times in one call and its confirmation awaited at most 9 times; the
\* three methods with one transaction stay within 3 and 9 in total, and
\* swapUSDCForCBTC, which submits an approval and a swap, within 6 and 18.
C20_Amended ==
    bot.fn # "none" =>
        /\ bot.outer.policy = RETRY_CONFIG
        /\ bot.inner.pc # "idle" => bot.inner.policy = RETRY_CONFIG
        /\ \A s \in 1..2 :
               /\ bot.submits[s] <= 3 /\ bot.waits[s] <= 9
               /\ bot.submits[s] <= bot.outer.invocations
               /\ bot.waits[s] <= 3 * bot.submits[s]
               /\ s > Len(Transactions(bot.fn)) => bot.submits[s] = 0 /\ bot.waits[s] = 0
        /\ bot.fn # "swapUSDCForCBTC" => TotalSubmits <= 3 /\ TotalWaits <= 9
        /\ TotalSubmits <= 6 /\ TotalWaits <= 18
        /\ (bot.inner.pc = "FAILED" /\ Retryable(bot.inner.thrown)) =>
               \/ bot.outer.pc \in {"RETRY_WAIT", "ATTEMPTING"}
               \/ bot.outer.pc = "FAILED" /\ bot.outer.attempt = 3
                     /\ bot.outer.thrown = bot.inner.thrown

C20_Witness ==
    /\ bot.fn = "swapUSDCForCBTC" /\ bot.outer.pc = "FAILED"
    /\ bot.submits = <<3, 3>> /\ bot.waits = <<9, 9>>

TraceLen == Len(bot.trace)

IsSubmission(ev, tx) == ev.tx = tx /\ ev.e \in {"submitted", "submitFailed"}

\* C21: in swapUSDCForCBTC every submission of the swap comes right after
\* the confirmation of the approval, which comes right after the approval's
\* submission, which opened the same run of the operation; a failed approval
\* submission or a failed approval wait is followed by nothing in that run
\* (the next thing, if any, is a new run), and every run starts by submitting
\* the approval.
C21_ApproveBeforeSwap ==
    bot.fn = "swapUSDCForCBTC" =>
        \A p \in 1..TraceLen :
            LET ev == bot.trace[p]
            IN  /\ IsSubmission(ev, "swapExactTokensForETH") =>
                       /\ p >= 4
                       /\ bot.trace[p - 1] = [e |-> "confirmed", tx |-> "approve", o |-> ev.o]
                       /\ bot.trace[p - 2] = [e |-> "submitted", tx |-> "approve", o |-> ev.o]
                       /\ bot.trace[p - 3] = [e |-> "attempt", tx |-> "", o |-> ev.o]
                /\ (ev.tx = "approve" /\ ev.e \in {"submitFailed", "waitFailed"}) =>
                       /\ p < TraceLen =>
                              bot.trace[p + 1] = [e |-> "attempt", tx |-> "", o |-> ev.o + 1]
                       /\ \A q \in 1..TraceLen :
                              bot.trace[q].o = ev.o => bot.trace[q].tx # "swapExactTokensForETH"
                /\ (ev.e = "attempt" /\ p < TraceLen) =>
                       IsSubmission(bot.trace[p + 1], "approve") /\ bot.trace[p + 1].o = ev.o
                /\ (ev.e = "attempt" /\ p > 1) =>
                       bot.trace[p - 1].e \in {"submitFailed", "waitFailed"}

\* an approval wait failed in the first run, and the second run submitted
\* the approval again before its swap
C21_Witness ==
    /\ bot.fn = "swapUSDCForCBTC" /\ TraceLen >= 7
    /\ bot.trace[3] = [e |-> "waitFailed", tx |-> "approve", o |-> 1]
    /\ bot.trace[5] = [e |-> "submitted", tx |-> "approve", o |-> 2]
    /\ bot.trace[7] = [e |-> "submitted", tx |-> "swapExactTokensForETH", o |-> 2]

WalletLogLen == Len(wallet.log)

\* the positions in the log of the tasks that were started
RECURSIVE StartedFrom(_)
StartedFrom(p) ==
    IF p > WalletLogLen THEN <<>>
    ELSE IF wallet.log[p].e = "start"
    THEN <<[method |-> wallet.log[p].task.method,
            contractType |-> wallet.log[p].task.contractType]>> \o StartedFrom(p + 1)
    ELSE StartedFrom(p + 1)

SomeTaskFailed == \E p \in 1..WalletLogLen : wallet.log[p].e = "failed"

\* C22: the failure of a task is the last thing in the wallet's log: no task
\* is started and no delay is begun after it, and processWallet has returned;
\* everything before it is a run of completed tasks, each with its delay, and
\* the log only ever grows at its end, so completed tasks stay completed.
C22_FirstFailureEndsWallet ==
    /\ [](\A p \in 1..WalletLogLen :
              wallet.log[p].e = "failed" =>
                  /\ p = WalletLogLen /\ wallet.pc = "returned"
                  /\ p % 3 = 2 /\ wallet.log[p - 1] = WalletEvent("start", wallet.log[p].task)
                  /\ \A q \in 1..(p - 2) :
                         wallet.log[q].e = (IF q % 3 = 1 THEN "start"
                                            ELSE IF q % 3 = 2 THEN "done" ELSE "delay"))
    /\ [][wallet.pc # "idle" =>
              /\ Len(wallet'.log) >= WalletLogLen
              /\ \A q \in 1..WalletLogLen : wallet'.log[q] = wallet.log[q]
              /\ wallet.pc = "returned" => wallet' = wallet]_vars

\* the first deployment failed after two transfers, with swaps still to come
C22_Witness ==
    /\ wallet.pc = "returned" /\ WalletLogLen = 8
    /\ wallet.log[8].e = "failed" /\ wallet.log[8].task.method = "deployContract"
    /\ wallet.log[5].e = "done" /\ wallet.log[5].task.method = "selfTransfer"
    /\ nextPosition(wallet.config, wallet.pos) # EndOfTry
    /\ wallet.config.swap.enabled /\ wallet.config.swap.usdc_to_cbtc

Task(method, contractType) == [method |-> method, contractType |-> contractType]

\* the tasks a configuration asks for, in the stated order
ExpectedTasks(config) ==
    LET nT == IF config.self_transfer.enabled THEN config.self_transfer.repeat ELSE 0
        types == config.contract_deploy.contract_types
        nD == IF config.contract_deploy.enabled
              THEN config.contract_deploy.repeat * Len(types) ELSE 0
    IN  [k \in 1..nT |-> Task("selfTransfer", "")]
        \o [k \in 1..nD |-> Task("deployContract", types[((k - 1) % Len(types)) + 1])]
        \o (IF config.swap.enabled /\ config.swap.cbtc_to_usdc
            THEN <<Task("swapCBTCForUSDC", "")>> ELSE <<>>)
        \o (IF config.swap.enabled /\ config.swap.usdc_to_cbtc
            THEN <<Task("swapUSDCForCBTC", "")>> ELSE <<>>)

IsPrefix(a, b) == Len(a) <= Len(b) /\ \A k \in 1..Len(a) : a[k] = b[k]

\* C23: the tasks started so far are the first ones of the list: transfers,
\* then deployments (repetition by repetition, types in configured order),
\* then the CBTC-to-USDC swap, then the USDC-to-CBTC swap, leaving out what
\* is disabled; a call that returns without a failure has run the whole list;
\* a task starts only when the one before has completed and its delay has
\* been slept, so tasks never overlap; every completed task begins its delay.
C23_TaskOrder ==
    wallet.pc # "idle" =>
        /\ IsPrefix(StartedFrom(1), ExpectedTasks(wallet.config))
        /\ (wallet.pc = "returned" /\ ~SomeTaskFailed) =>
               StartedFrom(1) = ExpectedTasks(wallet.config)
        /\ \A p \in 1..WalletLogLen :
               /\ wallet.log[p].e = "start" =>
                      /\ p % 3 = 1
                      /\ p > 1 =>
                             /\ wallet.log[p - 1].e = "delay"
                             /\ wallet.log[p - 2].e = "done"
                             /\ wallet.log[p - 1].task = wallet.log[p - 2].task
                      /\ p < WalletLogLen =>
                             /\ wallet.log[p + 1].e \in {"done", "failed"}
                             /\ wallet.log[p + 1].task = wallet.log[p].task
               /\ wallet.log[p].e = "done" =>
                      /\ p < WalletLogLen
                      /\ wallet.log[p + 1] = WalletEvent("delay", wallet.log[p].task)
               /\ wallet.log[p].task.method = "selfTransfer" =>
                      wallet.config.self_transfer.enabled
               /\ wallet.log[p].task.method = "deployContract" =>
                      wallet.config.contract_deploy.enabled
               /\ wallet.log[p].task.method = "swapCBTCForUSDC" =>
                      wallet.config.swap.enabled /\ wallet.config.swap.cbtc_to_usdc
               /\ wallet.log[p].task.method = "swapUSDCForCBTC" =>
                      wallet.config.swap.enabled /\ wallet.config.swap.usdc_to_cbtc
        /\ wallet.pc = "task" <=> (WalletLogLen > 0 /\ wallet.log[WalletLogLen].e = "start")

\* two transfers, two contract types deployed twice over and the first swap
\* ran in order; the second swap is disabled and was left out
C23_Witness ==
    /\ wallet.pc = "returned" /\ ~SomeTaskFailed
    /\ StartedFrom(1) = <<Task("selfTransfer", ""), Task("selfTransfer", ""),
                          Task("deployContract", "SimpleStorage"),
                          Task("deployContract", "ERC20"),
                          Task("deployContract", "SimpleStorage"),
                          Task("deployContract", "ERC20"),
                          Task("swapCBTCForUSDC", "")>>
    /\ ~wallet.config.swap.usdc_to_cbtc

\* the attempts of the call that failed and were followed by a retry
RetriedFailures ==
    Len(call.errors) - (IF call.pc = "FAILED" /\ call.errors # <<>> THEN 1 ELSE 0)

\* C24: in a call with maxAttempts >= 1 the attempt counter stays within
\* 1..maxAttempts; the operation has been invoked attempt times, or attempt-1
\* times while the attempt just counted is still to be invoked; the sleeps
\* are as many as the failed attempts that were retried; and a call that has
\* ended has invoked the operation at least once.
C24_AttemptCounter ==
    (call.pc # "idle" /\ call.policy.maxAttempts >= 1) =>
        /\ 1 <= call.attempt /\ call.attempt <= call.policy.maxAttempts
        /\ call.invocations \in {call.attempt, call.attempt - 1}
        /\ call.invocations = call.attempt - 1 <=> call.pc = "ATTEMPTING"
        /\ Len(call.slept) = RetriedFailures
        /\ Len(call.slept) = call.attempt - (IF call.pc = "RETRY_WAIT" THEN 0 ELSE 1)
        /\ call.pc \in {"SUCCESS", "FAILED"} => call.invocations >= 1

C24_Witness ==
    /\ call.pc = "ATTEMPTING" /\ call.policy.maxAttempts = 3
    /\ call.attempt = 3 /\ call.invocations = 2
    /\ Len(call.slept) = 2 /\ Len(call.errors) = 2

\* the call ends at the throw lastError of line 47: it fails at a loop test,
\* not in the catch block of a running attempt
TrailingThrow == call.pc \in {"idle", "RETRY_WAIT"} /\ call'.pc = "FAILED"

PartialTrailingThrow == partial.pc \in {"idle", "RETRY_WAIT"} /\ partial'.pc = "FAILED"

\* C25: with maxAttempts >= 1 a call never ends at the throw after the loop:
\* it fails only in the catch block of a running attempt, and a sleeping
\* call always has an attempt left.  The throw after the loop is taken only
\* by the first loop test, when maxAttempts is below 1 or is undefined; then
\* the operation was never invoked and the value thrown is the unset
\* lastError; and with such a maxAttempts every call ends that way.
C25_TrailingThrow ==
    /\ [][TrailingThrow =>
              /\ call.pc = "idle" /\ call'.policy.maxAttempts < 1
              /\ call'.invocations = 0 /\ call'.errors = <<>>
              /\ call'.thrown = Undefined /\ call'.lastError = Undefined]_vars
    /\ [][(call'.pc = "FAILED" /\ call.pc # "FAILED" /\ call'.policy.maxAttempts >= 1) =>
              /\ call.pc = "RUNNING" /\ call'.invocations >= 1
              /\ call'.thrown # Undefined]_vars
    /\ [][(call.pc = "idle" /\ call'.pc # "idle" /\ call'.policy.maxAttempts < 1) =>
              TrailingThrow]_vars
    /\ [](call.pc = "RETRY_WAIT" => call.attempt < call.policy.maxAttempts)
    /\ [][PartialTrailingThrow =>
              /\ partial.pc = "idle" /\ partial'.params.maxAttempts.t # "number"
              /\ partial'.invocations = 0
              /\ partial'.thrown = Undefined]_vars
    /\ [][(partial'.pc = "FAILED" /\ partial.pc # "FAILED"
             /\ partial'.params.maxAttempts.t = "number") =>
              /\ partial'.params.maxAttempts.n >= 1
              /\ partial.pc = "RUNNING" /\ partial'.invocations >= 1
              /\ partial'.thrown # Undefined]_vars
    /\ [][(partial.pc = "idle" /\ partial'.pc # "idle"
             /\ partial'.params.maxAttempts.t # "number") => PartialTrailingThrow]_vars

C25_Witness ==
    /\ call.pc = "FAILED" /\ call.policy.maxAttempts = 0
    /\ call.invocations = 0 /\ call.thrown = Undefined /\ call.slept = <<>>

=============================================================================
